---- MODULE Spec2Model ----
(***************************************************************************)
(* Model of the shipnative auth store (apps/app/app/stores/auth):          *)
(* the zustand store, initialize(), the onAuthStateChange callback,        *)
(* setSession / setUser / setHasCompletedOnboarding, signOut, and the      *)
(* onboarding merge syncOnboardingStatus.                                  *)
(*                                                                         *)
(* Every `await` of the code is a suspension point: the synchronous code   *)
(* between two awaits is one action.  Provider and database answers are    *)
(* chosen by the environment.                                              *)
(***************************************************************************)
EXTENDS Integers, FiniteSets, Sequences, TLC

\* ------------------------------------------------------------------ bounds
\* The clock runs over 0..MaxTime (seconds, abstractly).
MaxTime == 2

\* Operations the application and the provider start in one behaviour
\* (initialize, a push, setSession, setUser, setHasCompletedOnboarding,
\* signOut).
MaxCalls == 3

\* Number of operations started under the fair specification.
MaxFairCalls == 2

\* The rate limiter's clock runs over 0..MaxClock.
MaxClock == 4

\* config.windowMs in clock ticks.
WindowTicks == 2

\* config.maxAttempts of passwordResetRateLimiter.
MAX_ATTEMPTS_PASSWORD_RESET == 3

\* Slashes written between "scheme:" and the first name of a link.
MaxSlashes == 3

\* Names separated by "/" in a link.
MaxSegments == 2

\* key=value pairs in the query of a link.
MaxQueryPairs == 2

\* validateDeepLinkToken: token.length > 10 && token.length < 1000.
MinTokenLength == 10

MaxTokenLength == 1000

\* Screens that can be exchanging a code at the same time.
MaxFlows == 2

\* Times the reset-password form is submitted.
MaxSubmits == 2

\* Listener closures that register with the lifecycle event bus.
MaxListeners == 3

\* ------------------------------------------------------------------ values
\* JavaScript null / undefined for object-valued fields.
Null == [null |-> TRUE]

\* A provider call that throws instead of settling with a value.
Throw == [throw |-> TRUE]

\* A provider call that resolves with { data: { user: null }, error }.
AuthError == [error |-> TRUE]

GUEST_USER_KEY == "guest"

UserIds == {"u1"}

\* Ids of the identities a sequence of pushes is about.
SeqUserIds == {"u1", "u2"}

\* Ids the onboarding merge is called with when it is checked on its own.
SyncUserIds == {"u1", "u2", "u3"}

\* A User as far as the store looks at it: its id, whether email_confirmed_at
\* or confirmed_at is set, and whether app_metadata / identities name a
\* provider other than "email".
UsersOf(ids) ==
  { u \in [id : ids, email_confirmed_at : BOOLEAN, oauth : BOOLEAN] :
      ~(u.email_confirmed_at /\ u.oauth) }

Users == UsersOf(UserIds)

\* Sessions the provider hands out expire at SessionExpiry.
SessionExpiry == MaxTime - 1

SessionsOf(ids) == [user : UsersOf(ids), expires_at : {SessionExpiry}]

Sessions == SessionsOf(UserIds)

\* Concurrent runs of initialize() / of the auth-state callback.
Slots == {1, 2}

AuthChangeEvents ==
  {"SIGNED_IN", "SIGNED_OUT", "TOKEN_REFRESHED", "USER_UPDATED", "PASSWORD_RECOVERY"}

RefreshEvents == {"SIGNED_IN", "TOKEN_REFRESHED", "USER_UPDATED"}

\* Outcomes of the profiles query: a row with the flag, a row without it (or no
\* data), an error object, a thrown exception.
DbResponses == {"true", "false", "null", "error", "throw"}

\* Fields of the store that make up the identity/onboarding composite.
CompositeFields ==
  {"session", "user", "isAuthenticated", "isEmailConfirmed",
   "hasCompletedOnboarding", "onboardingStatusByUserId"}

VARIABLES
  store,                  \* the zustand state object
  authStateSubscription,  \* module-level: TRUE when a subscription is held
  registrations,          \* number of onAuthStateChange calls made so far
  run,                    \* per slot: a run of initialize or of the callback
  onb,                    \* the setHasCompletedOnboarding call in flight
  so,                     \* the signOut call in flight
  now,                    \* Date.now() / 1000
  isUsingMockSupabase,    \* services/supabase.ts: fixed at start-up
  remoteReported,         \* ids for which a profiles query has answered true
  lastWriter,             \* who replaced the composite state last
  lastPushNull,           \* whether the latest push carried no session
  calls,                  \* operations started so far
  seqStore,               \* a store that handles pushes one after another
  freshStore,             \* a fresh store that handles only the latest push
  lastThrew,              \* whether the latest push's getUser() threw
  syncReported,           \* ids for which syncOnboardingStatus saw true
  syncCall,               \* the latest syncOnboardingStatus call
  rlEntries,              \* key-value store: identifier -> RateLimitEntry
  rlNow,                  \* Date.now() as the rate limiter reads it
  rlGrants,               \* per identifier: counted grants in its window
  rlCall,                 \* the latest isAllowed call
  linkCall,               \* the latest handleDeepLink call
  flows,                  \* per slot: a run of verifyLink / handleAuthCallback
  consumed,               \* codes the provider has exchanged already
  detCall,                \* the latest detectLifecycleEvent call
  resetScreen,            \* ResetPasswordScreen: its state and its submits
  bus,                    \* the lifecycle event bus and its dispatch pass
  del                     \* the deleteAccount call in flight

authVars ==
  <<store, authStateSubscription, registrations, run, onb, so, now,
    isUsingMockSupabase, remoteReported, lastWriter, lastPushNull, calls>>

\* State of the specifications that apply one function on its own.
seqVars == <<seqStore, freshStore, lastThrew>>

syncVars == <<syncReported, syncCall>>

rateVars == <<rlEntries, rlNow, rlGrants, rlCall>>

linkVars == <<linkCall>>

flowVars == <<flows, consumed>>

detVars == <<detCall>>

submitVars == <<resetScreen>>

busVars == <<bus>>

delVars == <<del>>

pureVars ==
  <<seqVars, syncVars, rateVars, linkVars, flowVars, detVars, submitVars,
    busVars, delVars>>

vars == <<authVars, pureVars>>

\* ------------------------------------------------------- pure functions
\* { ...a, ...b }
Spread(a, b) ==
  [f \in DOMAIN a \cup DOMAIN b |-> IF f \in DOMAIN b THEN b[f] ELSE a[f]]

\* zustand set(partial): a shallow merge into the state object.
set(state, partial) ==
  [f \in DOMAIN state |-> IF f \in DOMAIN partial THEN partial[f] ELSE state[f]]

isEmailConfirmed(user) ==
  IF user = Null THEN FALSE
  ELSE IF user.oauth THEN TRUE
  ELSE user.email_confirmed_at

\* types/auth.ts: the session helper, which looks at expires_at.
isAuthenticated(session) ==
  IF session = Null THEN FALSE
  ELSE IF session.expires_at < now THEN FALSE
  ELSE TRUE

updateUserState_NoConfirm(user, session) ==
  [user |-> user,
   session |-> session,
   isEmailConfirmed |-> isEmailConfirmed(user),
   isAuthenticated |-> session # Null]

updateUserState(user, session) ==
  [user |-> user,
   session |-> session,
   isEmailConfirmed |-> isEmailConfirmed(user),
   isAuthenticated |-> (session # Null /\ isEmailConfirmed(user))]

getUserKey(user) == IF user = Null THEN GUEST_USER_KEY ELSE user.id

\* session?.user ?? null
SessionUser(session) == IF session = Null THEN Null ELSE session.user

\* setSession(session): the state object after the call.
SessionSet(state, session) ==
  set(state, Spread(updateUserState(SessionUser(session), session),
                    [session |-> session]))

\* Lines 419-430: a refreshed user replaces session.user; none, or a throw,
\* leaves the session as it is.
RefreshedSession(session, resp) ==
  IF resp \in {Null, AuthError, Throw} THEN session
  ELSE [session EXCEPT !.user = resp]

\* Lines 364-377 and 435-448: the fetched user (none when the call resolves
\* with an error, which is not looked at), or on a throw the user the store
\* holds.
ResolvedUser(resp, existingUser) ==
  IF resp = Throw THEN existingUser
  ELSE IF resp = AuthError THEN Null
  ELSE resp

\* How a getUser() call ended.
FetchOutcome(resp) ==
  IF resp = Throw THEN "throw"
  ELSE IF resp = AuthError THEN "error"
  ELSE IF resp = Null THEN "null"
  ELSE "user"

fetchOnboardingFromDatabase(resp) ==
  IF resp \in {"true", "false"} THEN resp ELSE "null"

syncOnboardingStatus_LocalOnly(dbStatus, localStatus) == localStatus

\* The value syncOnboardingStatus resolves to, given what the fetch answered.
syncOnboardingStatus(dbStatus, localStatus) ==
  IF dbStatus = "true" THEN TRUE
  ELSE IF localStatus THEN TRUE
  ELSE localStatus

\* Whether syncOnboardingStatus awaits syncOnboardingToDatabase(userId, true).
SyncWritesBack(dbStatus, localStatus) == dbStatus # "true" /\ localStatus

\* onboardingStatusByUserId[userKey] ?? false
LocalOnboarding(map, userKey) ==
  IF userKey \in DOMAIN map THEN map[userKey] ELSE FALSE

\* The object initialize and the callback pass to set() when they finish.
CommitUpdate(session, user, snap, hasCompletedOnboarding) ==
  Spread(updateUserState(user, session),
         [session |-> session,
          isAuthenticated |-> (session # Null /\ isEmailConfirmed(user)),
          hasCompletedOnboarding |-> hasCompletedOnboarding,
          onboardingStatusByUserId |->
            Spread(snap, [k \in {getUserKey(user)} |-> hasCompletedOnboarding]),
          loading |-> FALSE])

InitStartUpdate_ClearsSession == [loading |-> TRUE, session |-> Null]

InitStartUpdate == [loading |-> TRUE]

InitCatchUpdate_Anonymous ==
  [loading |-> FALSE, user |-> Null, session |-> Null, isAuthenticated |-> FALSE]

InitCatchUpdate_NoReset == [loading |-> store.loading]

InitCatchUpdate == [loading |-> FALSE]

\* What signOut leaves in the store: no identity, the guest's onboarding flag.
SignOutUpdate ==
  [session |-> Null,
   user |-> Null,
   isAuthenticated |-> FALSE,
   isEmailConfirmed |-> FALSE,
   hasCompletedOnboarding |->
     IF GUEST_USER_KEY \in DOMAIN store.onboardingStatusByUserId
     THEN store.onboardingStatusByUserId[GUEST_USER_KEY] ELSE TRUE,
   loading |-> FALSE]

\* The whole auth-state callback, run without interleaving: `refreshed` and
\* `fetched` are what the two getUser() calls settle with, `resp` what the
\* profiles query answers.
HandlePush_KeepsUser(st, event, session, refreshed, fetched, resp) ==
  LET s1 == IF SessionUser(session) # Null /\ event \in RefreshEvents
            THEN RefreshedSession(session, refreshed) ELSE session
      user == IF SessionUser(s1) # Null THEN SessionUser(s1)
              ELSE IF fetched = Null THEN st.user
              ELSE ResolvedUser(fetched, st.user)
      snap == st.onboardingStatusByUserId
      local == LocalOnboarding(snap, getUserKey(user))
      has == IF user # Null /\ ~isUsingMockSupabase
             THEN syncOnboardingStatus(fetchOnboardingFromDatabase(resp), local)
             ELSE local
  IN set(st, CommitUpdate(s1, user, snap, has))

HandlePush(st, event, session, refreshed, fetched, resp) ==
  LET s1 == IF SessionUser(session) # Null /\ event \in RefreshEvents
            THEN RefreshedSession(session, refreshed) ELSE session
      user == IF SessionUser(s1) # Null THEN SessionUser(s1)
              ELSE ResolvedUser(fetched, st.user)
      snap == st.onboardingStatusByUserId
      local == LocalOnboarding(snap, getUserKey(user))
      has == IF user # Null /\ ~isUsingMockSupabase
             THEN syncOnboardingStatus(fetchOnboardingFromDatabase(resp), local)
             ELSE local
  IN set(st, CommitUpdate(s1, user, snap, has))

\* ------------------------------------------------------------ rate limiter
\* Identifiers isAllowed is called with.
RateIds == {"a@x", "b@x"}

\* What one isAllowed call returns and what it leaves stored under its key:
\* `stored` is what load() finds, `loadFails` / `saveFails` say whether the
\* key-value store throws on load / on save.
isAllowed_OffByOne(stored, at, loadFails, saveFails) ==
  IF loadFails THEN [result |-> TRUE, threw |-> FALSE, entry |-> stored]
  ELSE IF stored = Null \/ at >= stored.resetAt
  THEN IF saveFails THEN [result |-> TRUE, threw |-> FALSE, entry |-> stored]
       ELSE [result |-> TRUE, threw |-> FALSE,
             entry |-> [count |-> 1, resetAt |-> at + WindowTicks]]
  ELSE IF stored.count > MAX_ATTEMPTS_PASSWORD_RESET
  THEN [result |-> FALSE, threw |-> FALSE, entry |-> stored]
  ELSE IF saveFails THEN [result |-> TRUE, threw |-> FALSE, entry |-> stored]
  ELSE [result |-> TRUE, threw |-> FALSE,
        entry |-> [stored EXCEPT !.count = @ + 1]]

isAllowed_KeepsWindow(stored, at, loadFails, saveFails) ==
  IF loadFails THEN [result |-> TRUE, threw |-> FALSE, entry |-> stored]
  ELSE IF stored = Null
  THEN IF saveFails THEN [result |-> TRUE, threw |-> FALSE, entry |-> stored]
       ELSE [result |-> TRUE, threw |-> FALSE,
             entry |-> [count |-> 1, resetAt |-> at + WindowTicks]]
  ELSE IF stored.count >= MAX_ATTEMPTS_PASSWORD_RESET
  THEN [result |-> FALSE, threw |-> FALSE, entry |-> stored]
  ELSE IF saveFails THEN [result |-> TRUE, threw |-> FALSE, entry |-> stored]
  ELSE [result |-> TRUE, threw |-> FALSE,
        entry |-> [stored EXCEPT !.count = @ + 1]]

isAllowed_ExtendsOnDeny(stored, at, loadFails, saveFails) ==
  IF loadFails THEN [result |-> TRUE, threw |-> FALSE, entry |-> stored]
  ELSE IF stored = Null \/ at >= stored.resetAt
  THEN IF saveFails THEN [result |-> TRUE, threw |-> FALSE, entry |-> stored]
       ELSE [result |-> TRUE, threw |-> FALSE,
             entry |-> [count |-> 1, resetAt |-> at + WindowTicks]]
  ELSE IF stored.count >= MAX_ATTEMPTS_PASSWORD_RESET
  THEN [result |-> FALSE, threw |-> FALSE,
        entry |-> IF saveFails THEN stored
                  ELSE [stored EXCEPT !.resetAt = at + WindowTicks]]
  ELSE IF saveFails THEN [result |-> TRUE, threw |-> FALSE, entry |-> stored]
  ELSE [result |-> TRUE, threw |-> FALSE,
        entry |-> [stored EXCEPT !.count = @ + 1]]

isAllowed_Rethrows(stored, at, loadFails, saveFails) ==
  IF loadFails THEN [result |-> FALSE, threw |-> TRUE, entry |-> stored]
  ELSE IF stored = Null \/ at >= stored.resetAt
  THEN IF saveFails THEN [result |-> FALSE, threw |-> TRUE, entry |-> stored]
       ELSE [result |-> TRUE, threw |-> FALSE,
             entry |-> [count |-> 1, resetAt |-> at + WindowTicks]]
  ELSE IF stored.count >= MAX_ATTEMPTS_PASSWORD_RESET
  THEN [result |-> FALSE, threw |-> FALSE, entry |-> stored]
  ELSE IF saveFails THEN [result |-> FALSE, threw |-> TRUE, entry |-> stored]
  ELSE [result |-> TRUE, threw |-> FALSE,
        entry |-> [stored EXCEPT !.count = @ + 1]]

isAllowed(stored, at, loadFails, saveFails) ==
  IF loadFails THEN [result |-> TRUE, threw |-> FALSE, entry |-> stored]
  ELSE IF stored = Null \/ at >= stored.resetAt
  THEN IF saveFails THEN [result |-> TRUE, threw |-> FALSE, entry |-> stored]
       ELSE [result |-> TRUE, threw |-> FALSE,
             entry |-> [count |-> 1, resetAt |-> at + WindowTicks]]
  ELSE IF stored.count >= MAX_ATTEMPTS_PASSWORD_RESET
  THEN [result |-> FALSE, threw |-> FALSE, entry |-> stored]
  ELSE IF saveFails THEN [result |-> TRUE, threw |-> FALSE, entry |-> stored]
  ELSE [result |-> TRUE, threw |-> FALSE,
        entry |-> [stored EXCEPT !.count = @ + 1]]

\* No isAllowed call made yet.
NoRateCall ==
  [called |-> FALSE, id |-> "a@x", before |-> Null, at |-> 0,
   loadFails |-> FALSE, saveFails |-> FALSE, after |-> Null,
   result |-> FALSE, threw |-> FALSE]

\* --------------------------------------------------------------- deep links
DEEP_LINK_SCHEME == "shipnative"

\* Schemes of the URLs the resolver is handed; "" stands for a string with no
\* scheme, which new URL() rejects.
LinkSchemes == {DEEP_LINK_SCHEME, "https", ""}

Screens == {"reset-password", "verify-email", "profile"}

SensitiveScreens == {"reset-password", "verify-email"}

QueryKeys == {"token", "code"}

\* Query values: the empty string, a short code, and tokens at the edges of
\* the accepted lengths; "k32" is 32 letters and digits.
QueryValues == {"", "abc123", "t10", "t11", "k32", "t999", "t1000"}

\* value.length, for the query values and the screen names
Length(value) ==
  CASE value = "" -> 0
    [] value = "abc123" -> 6
    [] value = "t10" -> 10
    [] value = "t11" -> 11
    [] value = "k32" -> 32
    [] value = "t999" -> 999
    [] value = "t1000" -> 1000
    [] value = "profile" -> 7
    [] value = "verify-email" -> 12
    [] value = "reset-password" -> 14

\* A URL string is kept split at its delimiters: scheme ":" slashes, names
\* joined by "/", then "?" and key=value pairs joined by "&".
\* new URL(url).pathname.split("/").filter(Boolean): after exactly two
\* slashes the first name is the host, not part of the path.
PathParts(url) ==
  IF url.slashes = 2 /\ Len(url.segs) > 0 THEN Tail(url.segs) ELSE url.segs

\* searchParams.forEach((value, key) => params[key] = value): for a key that
\* occurs twice the later value stays.
QueryParams(url) ==
  LET q == url.query
      Last(k) == CHOOSE i \in 1..Len(q) :
                   /\ q[i].key = k
                   /\ \A j \in 1..Len(q) : q[j].key = k => j <= i
  IN [k \in {q[i].key : i \in 1..Len(q)} |-> q[Last(k)].value]

parseDeepLink_NoCatch(url) ==
  IF url.scheme = "" THEN [threw |-> TRUE, parsed |-> Throw]
  ELSE IF url.scheme # DEEP_LINK_SCHEME THEN [threw |-> FALSE, parsed |-> Null]
  ELSE LET pathParts == PathParts(url) IN
       [threw |-> FALSE,
        parsed |-> [screen |-> IF Len(pathParts) > 0 THEN pathParts[1] ELSE "",
                    path |-> IF Len(pathParts) > 0 THEN Tail(pathParts) ELSE <<>>,
                    params |-> QueryParams(url)]]

\* parseDeepLink: `threw` when new URL() throws (the catch logs and returns
\* null), `parsed` = Null for null; screen "" stands for undefined and
\* params <<>> for undefined.
parseDeepLink(url) ==
  IF url.scheme = "" THEN [threw |-> TRUE, parsed |-> Null]
  ELSE IF url.scheme # DEEP_LINK_SCHEME THEN [threw |-> FALSE, parsed |-> Null]
  ELSE LET pathParts == PathParts(url) IN
       [threw |-> FALSE,
        parsed |-> [screen |-> IF Len(pathParts) > 0 THEN pathParts[1] ELSE "",
                    path |-> IF Len(pathParts) > 0 THEN Tail(pathParts) ELSE <<>>,
                    params |-> QueryParams(url)]]

validateDeepLinkToken(screen, token) ==
  IF token = "" THEN FALSE
  ELSE IF screen \notin SensitiveScreens THEN TRUE
  ELSE Length(token) > MinTokenLength /\ Length(token) < MaxTokenLength

\* Values logged as metadata.
UrlValue(url) == [kind |-> "url", url |-> url]

TextValue(text) == [kind |-> "text", text |-> text]

BoolValue(b) == [kind |-> "bool", bool |-> b]

Redacted == TextValue("[REDACTED]")

\* SENSITIVE_KEY_PATTERNS, on the metadata keys the resolver uses.
isSensitiveKey(key) == key \in {"token", "password", "email"}

\* SENSITIVE_VALUE_PATTERNS are anchored at both ends: a string of 32 or
\* more letters and digits matches, a URL (it holds ":") never does.
isSensitiveValue(value) ==
  value.kind = "text" /\ Length(value.text) >= 32

redactSensitiveData(metadata) ==
  [k \in DOMAIN metadata |->
     IF isSensitiveKey(k) THEN Redacted
     ELSE IF isSensitiveValue(metadata[k]) THEN Redacted
     ELSE metadata[k]]

\* logger.warn / debug / error: the entry written, metadata redacted.
LogEntry(level, message, metadata) ==
  [level |-> level, message |-> message,
   metadata |-> redactSensitiveData(metadata)]

\* parsed.params?.token, "" when absent.
TokenParam(params) == IF "token" \in DOMAIN params THEN params["token"] ELSE ""

\* handleDeepLink(url) in a build with __DEV__ = dev: what it resolves to
\* (Null for null, Throw when an exception of parseDeepLink escapes: the call
\* on line 311 is outside any try) and the log entries it writes.
handleDeepLink(url, dev) ==
  LET p == parseDeepLink(url)
      parsed == p.parsed
      parseLogs ==
        IF p.threw
        THEN {LogEntry("ERROR", "[DeepLinking] Error parsing deep link", <<>>)}
        ELSE {}
  IN IF parsed = Throw
     THEN [result |-> Throw, logs |-> {}]
     ELSE IF parsed = Null \/ parsed.screen = ""
     THEN [result |-> Null,
           logs |-> parseLogs \cup
             (IF dev
              THEN {LogEntry("WARN", "[DeepLinking] Invalid deep link",
                             [k \in {"url"} |-> UrlValue(url)])}
              ELSE {})]
     ELSE IF TokenParam(parsed.params) # ""
             /\ ~validateDeepLinkToken(parsed.screen, TokenParam(parsed.params))
     THEN [result |-> Null,
           logs |-> {LogEntry("WARN", "[DeepLinking] Invalid token in deep link",
                              [k \in {"screen"} |-> TextValue(parsed.screen)])}]
     ELSE [result |-> [screen |-> parsed.screen, params |-> parsed.params],
           logs |-> IF dev
                    THEN {LogEntry("DEBUG", "[DeepLinking] Parsed deep link",
                            [k \in {"screen", "hasParams"} |->
                               IF k = "screen" THEN TextValue(parsed.screen)
                               ELSE BoolValue(DOMAIN parsed.params # {})])}
                    ELSE {}]

\* No handleDeepLink call made yet.
NoLinkCall ==
  [called |-> FALSE, dev |-> FALSE,
   url |-> [scheme |-> "", slashes |-> 0, segs |-> <<>>, query |-> <<>>],
   result |-> Null, logs |-> {}]

\* ------------------------------------------------------------ code exchange
FlowSlots == 1..MaxFlows

FlowKinds == {"verifyLink", "handleAuthCallback"}

\* route.params.code values ("" when the route has none).
ExchangeCodes == {"abc123", "def456"}

\* Sessions the provider hands out for a code or a token.
GrantedSessions == SessionsOf(SeqUserIds)

IdleFlow ==
  [pc |-> "idle", kind |-> "verifyLink", code |-> "", via |-> "none",
   outcome |-> "none"]

\* supabase.auth.exchangeCodeForSession(code) when the codes in `used` have
\* been exchanged before: AuthError for { error }, a session or Null for
\* { data: { session } }, Throw for a rejection.
exchangeCodeForSession(code, used) ==
  IF code \in used
  THEN {AuthError, Throw}
  ELSE {AuthError, Throw, Null} \cup GrantedSessions

\* supabase.auth.verifyOtp / supabase.auth.setSession.
VerifyResponses == {AuthError, Throw, Null} \cup GrantedSessions

\* The provider call the effect awaits first: the code wins over the token
\* (verifyLink) or the token pair (handleAuthCallback); with neither it
\* throws at once.
FirstAwait(code, credential) ==
  IF code # "" THEN "exchange" ELSE IF credential THEN "verify" ELSE "none"

FlowOutcome(resp) ==
  IF resp \in {AuthError, Throw} THEN "error"
  ELSE IF resp = Null THEN "empty" ELSE "session"

ApplyAnswer_ClearsOnError(state, resp) ==
  IF resp \in {AuthError, Throw} THEN SessionSet(state, Null)
  ELSE IF resp # Null THEN SessionSet(state, resp)
  ELSE state

\* The store after the effect has seen the provider's answer:
\* `if (error) throw error` lands in the catch, which sets screen state only;
\* `if (data.session) setSession(data.session)`.
ApplyAnswer(state, resp) ==
  IF resp \in {AuthError, Throw} THEN state
  ELSE IF resp # Null THEN SessionSet(state, resp)
  ELSE state

\* -------------------------------------------------------------- navigation
\* AppStack: what the navigator renders for a store state, the spinner or
\* the group of screens of one of its three branches.
AppStack(state) ==
  IF state.loading THEN "Spinner"
  ELSE IF state.user # Null /\ ~state.hasCompletedOnboarding THEN "Onboarding"
  ELSE IF state.user # Null THEN "Main"
  ELSE "Welcome"

\* ------------------------------------------------------- lifecycle events
\* expirationDate: null (""), a string Date cannot parse, and two dates.
ExpirationDates == {"", "soon", "2026-01-01", "2026-02-01"}

\* new Date(s).getTime() in months of 2026, 0 for NaN.
getTime(s) ==
  CASE s = "2026-01-01" -> 1
    [] s = "2026-02-01" -> 2
    [] OTHER -> 0

\* new Date(a) > new Date(b): false when either side is an Invalid Date.
DateAfter(a, b) == getTime(a) # 0 /\ getTime(b) # 0 /\ getTime(a) > getTime(b)

ProductIds == {"monthly", "annual"}

\* SubscriptionInfo, the fields detectLifecycleEvent reads;
\* billingIssueDetectedAt is "" when null or absent.
SubscriptionInfos ==
  [productId : ProductIds, expirationDate : ExpirationDates,
   willRenew : BOOLEAN, isActive : BOOLEAN, isTrial : BOOLEAN,
   billingIssueDetectedAt : {"", "2026-01-15"}]

\* SubscriptionLifecycleData without its timestamp.
LifecycleData(event, productId, newInfo) ==
  [event |-> event, productId |-> productId,
   expirationDate |-> newInfo.expirationDate]

detectLifecycleEvent_ExpiredFirst(oldInfo, newInfo) ==
  IF oldInfo = Null
  THEN IF newInfo.isActive /\ newInfo.isTrial
       THEN LifecycleData("trial_started", newInfo.productId, newInfo)
       ELSE IF newInfo.isActive /\ ~newInfo.isTrial
       THEN LifecycleData("subscription_started", newInfo.productId, newInfo)
       ELSE Null
  ELSE IF oldInfo.isTrial /\ ~newInfo.isTrial /\ newInfo.isActive
  THEN LifecycleData("trial_converted", newInfo.productId, newInfo)
  ELSE IF oldInfo.isActive /\ ~newInfo.isActive /\ ~newInfo.willRenew
  THEN LifecycleData("subscription_expired", oldInfo.productId, newInfo)
  ELSE IF oldInfo.isTrial /\ oldInfo.isActive /\ ~newInfo.isActive
  THEN LifecycleData("trial_cancelled", oldInfo.productId, newInfo)
  ELSE IF /\ oldInfo.isActive /\ newInfo.isActive
          /\ oldInfo.expirationDate # "" /\ newInfo.expirationDate # ""
          /\ DateAfter(newInfo.expirationDate, oldInfo.expirationDate)
  THEN LifecycleData("subscription_renewed", newInfo.productId, newInfo)
  ELSE IF oldInfo.willRenew /\ ~newInfo.willRenew /\ newInfo.isActive
  THEN LifecycleData("subscription_cancelled", newInfo.productId, newInfo)
  ELSE IF oldInfo.billingIssueDetectedAt = ""
          /\ newInfo.billingIssueDetectedAt # ""
  THEN LifecycleData("billing_issue", newInfo.productId, newInfo)
  ELSE IF ~oldInfo.isActive /\ newInfo.isActive
  THEN LifecycleData("subscription_restored", newInfo.productId, newInfo)
  ELSE Null

detectLifecycleEvent_AnyLapseExpires(oldInfo, newInfo) ==
  IF oldInfo = Null
  THEN IF newInfo.isActive /\ newInfo.isTrial
       THEN LifecycleData("trial_started", newInfo.productId, newInfo)
       ELSE IF newInfo.isActive /\ ~newInfo.isTrial
       THEN LifecycleData("subscription_started", newInfo.productId, newInfo)
       ELSE Null
  ELSE IF oldInfo.isTrial /\ ~newInfo.isTrial /\ newInfo.isActive
  THEN LifecycleData("trial_converted", newInfo.productId, newInfo)
  ELSE IF oldInfo.isTrial /\ oldInfo.isActive /\ ~newInfo.isActive
  THEN LifecycleData("trial_cancelled", oldInfo.productId, newInfo)
  ELSE IF /\ oldInfo.isActive /\ newInfo.isActive
          /\ oldInfo.expirationDate # "" /\ newInfo.expirationDate # ""
          /\ DateAfter(newInfo.expirationDate, oldInfo.expirationDate)
  THEN LifecycleData("subscription_renewed", newInfo.productId, newInfo)
  ELSE IF oldInfo.willRenew /\ ~newInfo.willRenew /\ newInfo.isActive
  THEN LifecycleData("subscription_cancelled", newInfo.productId, newInfo)
  ELSE IF oldInfo.isActive /\ ~newInfo.isActive
  THEN LifecycleData("subscription_expired", oldInfo.productId, newInfo)
  ELSE IF oldInfo.billingIssueDetectedAt = ""
          /\ newInfo.billingIssueDetectedAt # ""
  THEN LifecycleData("billing_issue", newInfo.productId, newInfo)
  ELSE IF ~oldInfo.isActive /\ newInfo.isActive
  THEN LifecycleData("subscription_restored", newInfo.productId, newInfo)
  ELSE Null

\* detectLifecycleEvent(oldInfo, newInfo): Null for null.
detectLifecycleEvent(oldInfo, newInfo) ==
  IF oldInfo = Null
  THEN IF newInfo.isActive /\ newInfo.isTrial
       THEN LifecycleData("trial_started", newInfo.productId, newInfo)
       ELSE IF newInfo.isActive /\ ~newInfo.isTrial
       THEN LifecycleData("subscription_started", newInfo.productId, newInfo)
       ELSE Null
  ELSE IF oldInfo.isTrial /\ ~newInfo.isTrial /\ newInfo.isActive
  THEN LifecycleData("trial_converted", newInfo.productId, newInfo)
  ELSE IF oldInfo.isTrial /\ oldInfo.isActive /\ ~newInfo.isActive
  THEN LifecycleData("trial_cancelled", oldInfo.productId, newInfo)
  ELSE IF /\ oldInfo.isActive /\ newInfo.isActive
          /\ oldInfo.expirationDate # "" /\ newInfo.expirationDate # ""
          /\ DateAfter(newInfo.expirationDate, oldInfo.expirationDate)
  THEN LifecycleData("subscription_renewed", newInfo.productId, newInfo)
  ELSE IF oldInfo.willRenew /\ ~newInfo.willRenew /\ newInfo.isActive
  THEN LifecycleData("subscription_cancelled", newInfo.productId, newInfo)
  ELSE IF oldInfo.isActive /\ ~newInfo.isActive /\ ~newInfo.willRenew
  THEN LifecycleData("subscription_expired", oldInfo.productId, newInfo)
  ELSE IF oldInfo.billingIssueDetectedAt = ""
          /\ newInfo.billingIssueDetectedAt # ""
  THEN LifecycleData("billing_issue", newInfo.productId, newInfo)
  ELSE IF ~oldInfo.isActive /\ newInfo.isActive
  THEN LifecycleData("subscription_restored", newInfo.productId, newInfo)
  ELSE Null

\* No detectLifecycleEvent call made yet.
NoDetectCall ==
  [called |-> FALSE, oldInfo |-> Null, newInfo |-> Null, result |-> Null]

\* ----------------------------------------------------- password update race
SubmitSlots == 1..MaxSubmits

\* One onSubmit call: where it is, and the two promises it races.
IdleSubmit == [pc |-> "idle", updatePromise |-> "none", timer |-> "none"]

\* supabase.auth.updateUser({ password }): resolves { error: null } ("ok"),
\* resolves { error } ("error") or rejects ("throw").
UpdateUserResponses == {"ok", "error", "throw"}

\* The continuation of `await Promise.race([...])` with the promise that
\* settled first: setSuccess(true), or the catch's setVerificationError.
RaceSettled(screen, first) ==
  IF first = "ok"
  THEN [screen EXCEPT !.success = TRUE]
  ELSE [screen EXCEPT !.verificationError =
          IF first = "timeout" THEN "Request timed out. Please try again."
          ELSE "update failed"]

LoserSettled_Applies(screen, later) == RaceSettled(screen, later)

\* The promise that settles second: Promise.race has settled already and
\* nothing is waiting on it.
LoserSettled(screen, later) == screen

\* ------------------------------------------------------ lifecycle event bus
ListenerIds == 1..MaxListeners

\* No dispatch pass under way.  `snapshot` is the listener list as it was
\* when the pass began, `pos` the next index, `invoked` the calls made,
\* `left` the listeners unregistered while the pass was running.
NoDispatch ==
  [pc |-> "idle", snapshot |-> <<>>, pos |-> 1,
   invoked |-> [l \in ListenerIds |-> 0], left |-> {}, threw |-> FALSE]

\* The sequence without the element l.
Without(list, l) == SelectSeq(list, LAMBDA x : x # l)

DispatchList_Live(b) == b.listeners

\* The list a dispatch pass reads its listeners from: the copy taken when
\* the pass began.
DispatchList(b) == b.dispatch.snapshot

\* ---------------------------------------------------------- account deletion
\* No deleteAccount call made yet.  `deleted` says that the remote deletion
\* of this call succeeded, `result` is "ok" for {} and "error" for { error }.
IdleDelete ==
  [pc |-> "idle", userId |-> "", deleted |-> FALSE, logOutRejected |-> FALSE,
   signOut |-> "none", result |-> "none"]

\* The map without the entry of userId.
WithoutKey(map, userId) == [k \in DOMAIN map \ {userId} |-> map[k]]

\* resetAuthState(userId): the state object after the call.
resetAuthState(state, userId) ==
  LET onboardingStatusByUserId ==
        WithoutKey(state.onboardingStatusByUserId, userId)
      guestOnboarding ==
        IF GUEST_USER_KEY \in DOMAIN onboardingStatusByUserId
        THEN onboardingStatusByUserId[GUEST_USER_KEY]
        ELSE IF GUEST_USER_KEY \in DOMAIN state.onboardingStatusByUserId
        THEN state.onboardingStatusByUserId[GUEST_USER_KEY]
        ELSE TRUE
  IN set(state,
         [session |-> Null,
          user |-> Null,
          isAuthenticated |-> FALSE,
          hasCompletedOnboarding |-> guestOnboarding,
          onboardingStatusByUserId |->
            Spread(onboardingStatusByUserId,
                   [k \in {GUEST_USER_KEY} |-> guestOnboarding]),
          loading |-> FALSE])

\* supabase.auth.signOut(): resolves { error: null }, resolves { error },
\* or rejects.
SignOutResponses == {"ok", "error", "throw"}

\* deleteAccount from `await supabase.auth.signOut()` on: a rejection goes to
\* the catch, otherwise resetAuthState runs; the finally block ends both.
AfterSignOut(state, userId, resp) ==
  IF resp = "throw"
  THEN set(state, [loading |-> FALSE])
  ELSE set(resetAuthState(state, userId), [loading |-> FALSE])

\* ------------------------------------------------------------------ state
InitialStore ==
  [session |-> Null,
   user |-> Null,
   loading |-> TRUE,
   isAuthenticated |-> FALSE,
   isEmailConfirmed |-> FALSE,
   hasCompletedOnboarding |-> FALSE,
   onboardingStatusByUserId |-> [k \in {GUEST_USER_KEY} |-> TRUE]]

\* The store once initialize() has run with no session and no user.
FreshStore ==
  set(InitialStore,
      CommitUpdate(Null, Null, InitialStore.onboardingStatusByUserId,
                   LocalOnboarding(InitialStore.onboardingStatusByUserId,
                                   getUserKey(Null))))

IdleRun ==
  [kind |-> "none", pc |-> "idle", session |-> Null, user |-> Null,
   snap |-> <<>>, local |-> FALSE, failed |-> FALSE, writes |-> 0,
   compWrites |-> 0, fetched |-> "none", raced |-> FALSE,
   onboardedKey |-> ""]

IdleCall == [pc |-> "idle", wasAuth |-> FALSE, rejected |-> FALSE]

\* No setHasCompletedOnboarding call made yet; `odd` is the parity of the
\* number of calls made.
IdleOnboarding == [pc |-> "idle", completed |-> FALSE, odd |-> FALSE]

NoSyncCall ==
  [called |-> FALSE, userId |-> "u1", localStatus |-> FALSE, resp |-> "null",
   reportedBefore |-> FALSE, result |-> FALSE]

Init ==
  /\ store = InitialStore
  /\ authStateSubscription = FALSE
  /\ registrations = 0
  /\ run = [i \in Slots |-> IdleRun]
  /\ onb = IdleOnboarding
  /\ so = IdleCall
  /\ now = 0
  /\ isUsingMockSupabase \in BOOLEAN
  /\ remoteReported = {}
  /\ lastWriter = "none"
  /\ lastPushNull = TRUE
  /\ calls = 0
  /\ seqStore = FreshStore
  /\ freshStore = FreshStore
  /\ lastThrew = FALSE
  /\ syncReported = {}
  /\ syncCall = NoSyncCall
  /\ rlEntries = [id \in RateIds |-> Null]
  /\ rlNow = 0
  /\ rlGrants = [id \in RateIds |-> 0]
  /\ rlCall = NoRateCall
  /\ linkCall = NoLinkCall
  /\ flows = [i \in FlowSlots |-> IdleFlow]
  /\ consumed = {}
  /\ detCall = NoDetectCall
  /\ del = IdleDelete
  /\ bus = [listeners |-> <<>>, dispatch |-> NoDispatch]
  /\ resetScreen = [success |-> FALSE, verificationError |-> "",
                    submits |-> [i \in SubmitSlots |-> IdleSubmit]]

Free(i) == run[i].pc \in {"idle", "done"}

InFlight(i) == ~Free(i)

\* A new run takes the lowest free slot.
CanStart(i) == Free(i) /\ \A j \in Slots : j < i => ~Free(j)

\* Sessions the provider can hand out now: it never returns an expired one.
LiveSessions == {s \in Sessions : s.expires_at >= now}

\* A push carries no session on SIGNED_OUT and a live one otherwise.
PushSessions(event) == IF event = "SIGNED_OUT" THEN {Null} ELSE LiveSessions

\* What getUser() can settle with.
GetUserResponses == Users \cup {Null, AuthError, Throw}

\* The run record after one more set(partial).
Wrote(r, partial) ==
  [r EXCEPT !.writes = @ + 1,
            !.compWrites =
              IF DOMAIN partial \cap CompositeFields # {} THEN @ + 1 ELSE @]

Finished(r, failed) ==
  [r EXCEPT !.pc = "done", !.session = Null, !.user = Null, !.snap = <<>>,
            !.local = FALSE, !.failed = failed]

\* One more operation started.
Called ==
  /\ calls < MaxCalls
  /\ calls' = calls + 1

\* ------------------------------------------------ initialize and callback
\* Lines 408-481: subscribe only when no subscription is held.
RegisterListener_Always ==
  /\ registrations' = registrations + 1
  /\ authStateSubscription' = TRUE

RegisterListener ==
  IF ~authStateSubscription
  THEN /\ registrations' = registrations + 1
       /\ authStateSubscription' = TRUE
  ELSE UNCHANGED <<registrations, authStateSubscription>>

\* The final set() of run r in slot i; initialize then registers the listener.
Commit(i, r, session, user, snap, hasCompletedOnboarding) ==
  LET upd == CommitUpdate(session, user, snap, hasCompletedOnboarding) IN
  /\ store' = set(store, upd)
  /\ run' = [run EXCEPT ![i] = Finished(Wrote(r, upd), FALSE)]
  /\ lastWriter' = r.kind
  /\ IF r.kind = "init"
     THEN RegisterListener
     ELSE UNCHANGED <<registrations, authStateSubscription>>

\* The code that runs once `user` is known, up to the next await or the end.
AfterUser(i, r, session, user, snap) ==
  LET local == LocalOnboarding(snap, getUserKey(user)) IN
  IF user # Null /\ ~isUsingMockSupabase
  THEN /\ run' = [run EXCEPT ![i] =
                    [r EXCEPT !.pc = "fetch", !.session = session,
                              !.user = user, !.snap = snap, !.local = local]]
       /\ UNCHANGED <<store, registrations, authStateSubscription, lastWriter>>
  ELSE Commit(i, r, session, user, snap, local)

\* initialize(): set({ loading: true }), read the map, await getSession().
InitStart(i) ==
  /\ CanStart(i)
  /\ Called
  /\ store' = set(store, InitStartUpdate)
  /\ run' = [run EXCEPT ![i] =
               Wrote([IdleRun EXCEPT !.kind = "init", !.pc = "getSession",
                                     !.snap = store.onboardingStatusByUserId],
                     InitStartUpdate)]
  /\ UNCHANGED <<authStateSubscription, registrations, onb, so, now,
                 isUsingMockSupabase, remoteReported, lastWriter, lastPushNull>>
  /\ UNCHANGED pureVars

\* getSession() settles with a session or with none.
InitGetSession(i) ==
  /\ run[i].kind = "init" /\ run[i].pc = "getSession"
  /\ \E session \in LiveSessions \cup {Null} :
       IF SessionUser(session) = Null
       THEN /\ run' = [run EXCEPT ![i] = [@ EXCEPT !.pc = "getUser",
                                                   !.session = session]]
            /\ UNCHANGED <<store, registrations, authStateSubscription,
                           lastWriter>>
       ELSE AfterUser(i, run[i], session, SessionUser(session), run[i].snap)
  /\ UNCHANGED <<onb, so, now, isUsingMockSupabase, remoteReported,
                 lastPushNull, calls>>
  /\ UNCHANGED pureVars

\* getSession() throws: the catch block of initialize.
InitCatch(i) ==
  /\ run[i].kind = "init" /\ run[i].pc = "getSession"
  /\ store' = set(store, InitCatchUpdate)
  /\ run' = [run EXCEPT ![i] = Finished(Wrote(@, InitCatchUpdate), TRUE)]
  /\ UNCHANGED <<authStateSubscription, registrations, onb, so, now,
                 isUsingMockSupabase, remoteReported, lastWriter, lastPushNull,
                 calls>>
  /\ UNCHANGED pureVars

\* The provider calls the listener with (event, session): the callback runs
\* up to its first await.
PushDeliver(i) ==
  /\ authStateSubscription
  /\ CanStart(i)
  /\ Called
  /\ \E event \in AuthChangeEvents :
     \E session \in PushSessions(event) :
       LET r == [IdleRun EXCEPT !.kind = "push", !.session = session] IN
       /\ lastPushNull' = (session = Null)
       /\ IF SessionUser(session) # Null /\ event \in RefreshEvents
          THEN /\ run' = [run EXCEPT ![i] = [r EXCEPT !.pc = "refresh"]]
               /\ UNCHANGED <<store, registrations, authStateSubscription,
                              lastWriter>>
          ELSE IF SessionUser(session) = Null
          THEN /\ run' = [run EXCEPT ![i] = [r EXCEPT !.pc = "getUser"]]
               /\ UNCHANGED <<store, registrations, authStateSubscription,
                              lastWriter>>
          ELSE AfterUser(i, r, session, SessionUser(session),
                         store.onboardingStatusByUserId)
  /\ UNCHANGED <<onb, so, now, isUsingMockSupabase, remoteReported>>
  /\ UNCHANGED pureVars

\* The callback's refresh getUser() settles.
PushRefresh(i) ==
  /\ run[i].kind = "push" /\ run[i].pc = "refresh"
  /\ \E resp \in {u \in Users : u.id = run[i].session.user.id} \cup {Null, AuthError, Throw} :
       LET session == RefreshedSession(run[i].session, resp) IN
       AfterUser(i, run[i], session, SessionUser(session),
                 store.onboardingStatusByUserId)
  /\ UNCHANGED <<onb, so, now, isUsingMockSupabase, remoteReported,
                 lastPushNull, calls>>
  /\ UNCHANGED pureVars

\* The getUser() made when there is no session user settles.
GetUser(i) ==
  /\ run[i].pc = "getUser"
  /\ \E resp \in GetUserResponses :
       LET user == ResolvedUser(resp, store.user)
           snap == IF run[i].kind = "init" THEN run[i].snap
                   ELSE store.onboardingStatusByUserId
           r == [run[i] EXCEPT !.fetched = FetchOutcome(resp)]
       IN AfterUser(i, r, run[i].session, user, snap)
  /\ UNCHANGED <<onb, so, now, isUsingMockSupabase, remoteReported,
                 lastPushNull, calls>>
  /\ UNCHANGED pureVars

\* fetchOnboardingFromDatabase settles inside syncOnboardingStatus.
Fetch(i) ==
  /\ run[i].pc = "fetch"
  /\ \E resp \in DbResponses :
       LET dbStatus == fetchOnboardingFromDatabase(resp)
           r == run[i]
       IN /\ remoteReported' = IF dbStatus = "true"
                               THEN remoteReported \cup {r.user.id}
                               ELSE remoteReported
          /\ IF SyncWritesBack(dbStatus, r.local)
             THEN /\ run' = [run EXCEPT ![i] = [@ EXCEPT !.pc = "upsert"]]
                  /\ UNCHANGED <<store, registrations, authStateSubscription,
                                 lastWriter>>
             ELSE Commit(i, r, r.session, r.user, r.snap,
                         syncOnboardingStatus(dbStatus, r.local))
  /\ UNCHANGED <<onb, so, now, isUsingMockSupabase, lastPushNull, calls>>
  /\ UNCHANGED pureVars

\* syncOnboardingToDatabase(userId, true) settles (its errors are logged).
Upsert(i) ==
  /\ run[i].pc = "upsert"
  /\ LET r == run[i] IN
       Commit(i, r, r.session, r.user, r.snap,
              syncOnboardingStatus("null", r.local))
  /\ UNCHANGED <<onb, so, now, isUsingMockSupabase, remoteReported,
                 lastPushNull, calls>>
  /\ UNCHANGED pureVars

\* ------------------------------------------------- synchronous entry points
setSession ==
  /\ Called
  /\ \E session \in LiveSessions \cup {Null} :
       store' = SessionSet(store, session)
  /\ lastWriter' = "other"
  /\ UNCHANGED <<authStateSubscription, registrations, run, onb, so, now,
                 isUsingMockSupabase, remoteReported, lastPushNull>>
  /\ UNCHANGED pureVars

setUser ==
  /\ Called
  /\ \E user \in Users \cup {Null} :
       store' = set(store, Spread(updateUserState(user, store.session),
                                  [user |-> user]))
  /\ lastWriter' = "other"
  /\ UNCHANGED <<authStateSubscription, registrations, run, onb, so, now,
                 isUsingMockSupabase, remoteReported, lastPushNull>>
  /\ UNCHANGED pureVars

\* The object setHasCompletedOnboarding passes to set().
OnboardingUpdate(completed) ==
  [hasCompletedOnboarding |-> completed,
   onboardingStatusByUserId |->
     Spread(store.onboardingStatusByUserId,
            [k \in {getUserKey(store.user)} |-> completed])]

\* Kept with a run in flight: the key for which setHasCompletedOnboarding(true)
\* was called while the run was suspended ("" for none).
OnboardedDuring(before, userKey, completed) ==
  IF completed THEN userKey ELSE IF before = userKey THEN "" ELSE before

setHasCompletedOnboarding_WriteFirst ==
  /\ onb.pc \in {"idle", "done"}
  /\ Called
  /\ \E completed \in BOOLEAN :
       IF store.user # Null /\ ~isUsingMockSupabase
       THEN /\ onb' = [pc |-> "upsert", completed |-> completed,
                         odd |-> ~onb.odd]
            /\ UNCHANGED store
       ELSE /\ store' = set(store, OnboardingUpdate(completed))
            /\ onb' = [pc |-> "done", completed |-> FALSE, odd |-> ~onb.odd]
  /\ UNCHANGED <<authStateSubscription, registrations, run, so, now,
                 isUsingMockSupabase, remoteReported, lastWriter, lastPushNull>>
  /\ UNCHANGED pureVars

\* setHasCompletedOnboarding(completed): the local update, then the awaited
\* database write when there is a user and the real client; without one the
\* call returns at once.
setHasCompletedOnboarding ==
  /\ onb.pc \in {"idle", "done"}
  /\ Called
  /\ \E completed \in BOOLEAN :
       /\ store' = set(store, OnboardingUpdate(completed))
       /\ onb' = IF store.user # Null /\ ~isUsingMockSupabase
                 THEN [pc |-> "upsert", completed |-> completed,
                       odd |-> ~onb.odd]
                 ELSE [pc |-> "done", completed |-> FALSE, odd |-> ~onb.odd]
       /\ run' = [i \in Slots |->
                    IF InFlight(i)
                    THEN [run[i] EXCEPT !.onboardedKey =
                            OnboardedDuring(@, getUserKey(store.user), completed)]
                    ELSE run[i]]
  /\ UNCHANGED <<authStateSubscription, registrations, so, now,
                 isUsingMockSupabase, remoteReported, lastWriter, lastPushNull>>
  /\ UNCHANGED pureVars

\* syncOnboardingToDatabase settles (its errors are logged) and the call of
\* setHasCompletedOnboarding returns.
OnboardingWriteSettles ==
  /\ onb.pc = "upsert"
  /\ onb' = [onb EXCEPT !.pc = "done", !.completed = FALSE]
  /\ UNCHANGED <<store, authStateSubscription, registrations, run, so, now,
                 isUsingMockSupabase, remoteReported, lastWriter, lastPushNull,
                 calls>>
  /\ UNCHANGED pureVars

\* ------------------------------------------------------------------ signOut
SignOutStart ==
  /\ so.pc \in {"idle", "done"}
  /\ Called
  /\ so' = [pc |-> "logOut", wasAuth |-> store.isAuthenticated, rejected |-> FALSE]
  /\ UNCHANGED <<store, authStateSubscription, registrations, run, onb, now,
                 isUsingMockSupabase, remoteReported, lastWriter, lastPushNull>>
  /\ UNCHANGED pureVars

SignOutLogOut_Propagates ==
  /\ so.pc = "logOut"
  /\ \E rejected \in BOOLEAN :
       so' = [so EXCEPT !.pc = IF rejected THEN "done" ELSE "signOut",
                        !.rejected = rejected]
  /\ UNCHANGED <<store, authStateSubscription, registrations, run, onb, now,
                 isUsingMockSupabase, remoteReported, lastWriter, lastPushNull,
                 calls>>
  /\ UNCHANGED pureVars

\* The entitlement provider's logOut() resolves or rejects; a rejection is
\* logged and sign-out goes on.
SignOutLogOut ==
  /\ so.pc = "logOut"
  /\ \E rejected \in BOOLEAN :
       so' = [so EXCEPT !.pc = "signOut", !.rejected = rejected]
  /\ UNCHANGED <<store, authStateSubscription, registrations, run, onb, now,
                 isUsingMockSupabase, remoteReported, lastWriter, lastPushNull,
                 calls>>
  /\ UNCHANGED pureVars

\* supabase.auth.signOut() settles and the local identity is cleared.
SignOutFinish ==
  /\ so.pc = "signOut"
  /\ store' = set(store, SignOutUpdate)
  /\ so' = [so EXCEPT !.pc = "done"]
  /\ lastWriter' = "other"
  /\ run' = [i \in Slots |->
               IF InFlight(i) THEN [run[i] EXCEPT !.raced = TRUE] ELSE run[i]]
  /\ UNCHANGED <<authStateSubscription, registrations, onb, now,
                 isUsingMockSupabase, remoteReported, lastPushNull, calls>>
  /\ UNCHANGED pureVars

\* -------------------------------------------------------------------- clock
Tick ==
  /\ now < MaxTime
  /\ now' = now + 1
  /\ UNCHANGED <<store, authStateSubscription, registrations, run, onb, so,
                 isUsingMockSupabase, remoteReported, lastWriter, lastPushNull,
                 calls>>
  /\ UNCHANGED pureVars

\* --------------------------------------------------- functions on their own
\* Pushes handled one after another, each to completion, beside a fresh store
\* that handles only the latest one with the same answers.  `answer` is what
\* the one getUser() call the callback makes for this push settles with.
PushSeq ==
  /\ \E event \in AuthChangeEvents :
     \E session \in (IF event = "SIGNED_OUT" THEN {Null}
                     ELSE SessionsOf(SeqUserIds)) :
     \E answer \in {u \in UsersOf(SeqUserIds) :
                      session # Null => u.id = session.user.id}
                   \cup {Null, AuthError, Throw} :
     \E resp \in DbResponses :
       /\ seqStore' = HandlePush(seqStore, event, session, answer, answer, resp)
       /\ freshStore' = HandlePush(FreshStore, event, session, answer, answer, resp)
       /\ lastThrew' = (SessionUser(session) = Null /\ answer = Throw)
  /\ UNCHANGED <<syncVars, rateVars, linkVars, flowVars, detVars, submitVars, busVars, delVars>>
  /\ UNCHANGED authVars

\* One call syncOnboardingStatus(userId, localStatus) whose fetch answers resp.
SyncCall ==
  /\ \E userId \in SyncUserIds :
     \E localStatus \in BOOLEAN :
     \E resp \in DbResponses :
       LET dbStatus == fetchOnboardingFromDatabase(resp) IN
       /\ syncCall' = [called |-> TRUE, userId |-> userId,
                       localStatus |-> localStatus, resp |-> resp,
                       reportedBefore |-> userId \in syncReported,
                       result |-> syncOnboardingStatus(dbStatus, localStatus)]
       /\ syncReported' = IF dbStatus = "true"
                          THEN syncReported \cup {userId} ELSE syncReported
  /\ UNCHANGED <<seqVars, rateVars, linkVars, flowVars, detVars, submitVars, busVars, delVars>>
  /\ UNCHANGED authVars

\* One call isAllowed(id); it has no await, so it runs in one step.
IsAllowedCall ==
  /\ \E id \in RateIds :
     \E loadFails \in BOOLEAN :
     \E saveFails \in BOOLEAN :
       LET stored == rlEntries[id]
           out == isAllowed(stored, rlNow, loadFails, saveFails)
           fresh == stored = Null \/ rlNow >= stored.resetAt
       IN /\ rlEntries' = [rlEntries EXCEPT ![id] = out.entry]
          /\ rlCall' = [called |-> TRUE, id |-> id, before |-> stored,
                        at |-> rlNow, loadFails |-> loadFails,
                        saveFails |-> saveFails,
                        after |-> out.entry,
                        result |-> out.result, threw |-> out.threw]
          /\ rlGrants' = [rlGrants EXCEPT ![id] =
                            IF out.entry = stored THEN @
                            ELSE IF fresh THEN 1
                            ELSE @ + 1]
  /\ UNCHANGED rlNow
  /\ UNCHANGED <<seqVars, syncVars, linkVars, flowVars, detVars, submitVars, busVars, delVars>>
  /\ UNCHANGED authVars

\* reset(identifier): the entry is removed.
RateReset ==
  /\ \E id \in RateIds :
       /\ rlEntries[id] # Null
       /\ rlEntries' = [rlEntries EXCEPT ![id] = Null]
       /\ rlGrants' = [rlGrants EXCEPT ![id] = 0]
  /\ UNCHANGED <<rlNow, rlCall>>
  /\ UNCHANGED <<seqVars, syncVars, linkVars, flowVars, detVars, submitVars, busVars, delVars>>
  /\ UNCHANGED authVars

\* Time passes for the rate limiter.
RateTick ==
  /\ rlNow < MaxClock
  /\ rlNow' = rlNow + 1
  /\ UNCHANGED <<rlEntries, rlGrants, rlCall>>
  /\ UNCHANGED <<seqVars, syncVars, linkVars, flowVars, detVars, submitVars, busVars, delVars>>
  /\ UNCHANGED authVars

\* The URL the operating system is about to deliver gets its scheme and
\* slashes.
LinkSetScheme ==
  /\ ~linkCall.called
  /\ linkCall.url.segs = <<>> /\ linkCall.url.query = <<>>
  /\ \E scheme \in LinkSchemes :
     \E slashes \in 0..MaxSlashes :
       /\ <<scheme, slashes>> # <<linkCall.url.scheme, linkCall.url.slashes>>
       /\ linkCall' = [linkCall EXCEPT !.url.scheme = scheme,
                                       !.url.slashes = slashes]
  /\ UNCHANGED <<seqVars, syncVars, rateVars, flowVars, detVars, submitVars, busVars, delVars>>
  /\ UNCHANGED authVars

\* ... and one more name of its path.
LinkAppendSegment ==
  /\ ~linkCall.called
  /\ linkCall.url.query = <<>>
  /\ Len(linkCall.url.segs) < MaxSegments
  /\ \E name \in Screens :
       linkCall' = [linkCall EXCEPT !.url.segs = Append(@, name)]
  /\ UNCHANGED <<seqVars, syncVars, rateVars, flowVars, detVars, submitVars, busVars, delVars>>
  /\ UNCHANGED authVars

\* ... and one more key=value pair of its query.
LinkAppendPair ==
  /\ ~linkCall.called
  /\ Len(linkCall.url.query) < MaxQueryPairs
  /\ \E key \in QueryKeys :
     \E value \in QueryValues :
       linkCall' = [linkCall EXCEPT
                      !.url.query = Append(@, [key |-> key, value |-> value])]
  /\ UNCHANGED <<seqVars, syncVars, rateVars, flowVars, detVars, submitVars, busVars, delVars>>
  /\ UNCHANGED authVars

\* The "url" listener of initializeDeepLinking receives the URL: it logs that
\* it did and awaits handleDeepLink(url).
DeepLinkReceived ==
  /\ ~linkCall.called
  /\ \E dev \in BOOLEAN :
       LET url == linkCall.url
           out == handleDeepLink(url, dev)
           received ==
             IF dev
             THEN {LogEntry("DEBUG", "[DeepLinking] Received URL while running",
                            [k \in {"hasUrl"} |-> BoolValue(TRUE)])}
             ELSE {}
       IN linkCall' = [called |-> TRUE, dev |-> dev, url |-> url,
                       result |-> out.result, logs |-> received \cup out.logs]
  /\ UNCHANGED <<seqVars, syncVars, rateVars, flowVars, detVars, submitVars, busVars, delVars>>
  /\ UNCHANGED authVars

\* The next URL is on its way.
LinkNextUrl ==
  /\ linkCall.called
  /\ linkCall' = NoLinkCall
  /\ UNCHANGED <<seqVars, syncVars, rateVars, flowVars, detVars, submitVars, busVars, delVars>>
  /\ UNCHANGED authVars

\* ResetPasswordScreen or AuthCallbackScreen mounts, or its route params
\* change: the effect starts verifyLink / handleAuthCallback.
ScreenMount(i) ==
  /\ flows[i].pc \in {"idle", "done"}
  /\ \E kind \in FlowKinds :
     \E code \in ExchangeCodes \cup {""} :
     \E credential \in BOOLEAN :
       LET first == FirstAwait(code, credential) IN
         flows' = [flows EXCEPT ![i] =
                     [pc |-> IF first = "none" THEN "done" ELSE first,
                      kind |-> kind, code |-> code, via |-> first,
                      outcome |-> IF first = "none" THEN "error" ELSE "none"]]
  /\ UNCHANGED consumed
  /\ UNCHANGED <<seqVars, syncVars, rateVars, linkVars, detVars, submitVars, busVars, delVars>>
  /\ UNCHANGED authVars

\* The store and the flow after a provider call has answered resp.
FlowSettles(i, resp) ==
  /\ store' = ApplyAnswer(store, resp)
  /\ lastWriter' = IF FlowOutcome(resp) = "session" THEN "other" ELSE lastWriter
  /\ flows' = [flows EXCEPT ![i] =
                 [@ EXCEPT !.pc = "done", !.outcome = FlowOutcome(resp)]]
  /\ UNCHANGED <<authStateSubscription, registrations, run, onb, so, now,
                 isUsingMockSupabase, remoteReported, lastPushNull, calls>>
  /\ UNCHANGED <<seqVars, syncVars, rateVars, linkVars, detVars, submitVars, busVars, delVars>>

\* await supabase.auth.exchangeCodeForSession(code) settles.
ExchangeSettles(i) ==
  /\ flows[i].pc = "exchange"
  /\ \E resp \in exchangeCodeForSession(flows[i].code, consumed) :
       /\ consumed' = IF FlowOutcome(resp) = "error"
                      THEN consumed
                      ELSE consumed \cup {flows[i].code}
       /\ FlowSettles(i, resp)

\* await supabase.auth.verifyOtp(...) / supabase.auth.setSession(...) settles.
VerifySettles(i) ==
  /\ flows[i].pc = "verify"
  /\ \E resp \in VerifyResponses : FlowSettles(i, resp)
  /\ UNCHANGED consumed

\* detectLifecycleEvent(oldInfo, newInfo) is called with the snapshot of the
\* call before, or with null, as oldInfo.
DetectCall ==
  /\ \E oldInfo \in {Null, detCall.newInfo} :
     \E newInfo \in SubscriptionInfos :
       detCall' = [called |-> TRUE, oldInfo |-> oldInfo, newInfo |-> newInfo,
                   result |-> detectLifecycleEvent(oldInfo, newInfo)]
  /\ UNCHANGED <<seqVars, syncVars, rateVars, linkVars, flowVars, submitVars, busVars, delVars>>
  /\ UNCHANGED authVars

\* handleSubmit(onSubmit) runs: updateUser is started and raced against a
\* timer.  The form is on screen unless `success` shows the success view.
OnSubmit(i) ==
  /\ ~resetScreen.success
  /\ resetScreen.submits[i].pc = "idle"
  /\ \A j \in SubmitSlots : j < i => resetScreen.submits[j].pc # "idle"
  /\ resetScreen' = [resetScreen EXCEPT !.submits[i] =
                       [pc |-> "racing", updatePromise |-> "pending",
                        timer |-> "pending"]]
  /\ UNCHANGED <<seqVars, syncVars, rateVars, linkVars, flowVars, detVars, busVars, delVars>>
  /\ UNCHANGED authVars

\* supabase.auth.updateUser settles.
UpdateUserSettles(i) ==
  /\ resetScreen.submits[i].updatePromise = "pending"
  /\ \E resp \in UpdateUserResponses :
       LET screen == IF resetScreen.submits[i].pc = "racing"
                     THEN RaceSettled(resetScreen, resp)
                     ELSE LoserSettled(resetScreen, resp)
       IN resetScreen' =
            [screen EXCEPT !.submits[i].updatePromise = resp,
                           !.submits[i].pc =
                              IF @ = "racing"
                              THEN (IF resp = "ok" THEN "succeeded" ELSE "failed")
                              ELSE @]
  /\ UNCHANGED <<seqVars, syncVars, rateVars, linkVars, flowVars, detVars, busVars, delVars>>
  /\ UNCHANGED authVars

\* The setTimeout callback rejects timeoutPromise.
TimeoutFires(i) ==
  /\ resetScreen.submits[i].timer = "pending"
  /\ LET screen == IF resetScreen.submits[i].pc = "racing"
                   THEN RaceSettled(resetScreen, "timeout")
                   ELSE LoserSettled(resetScreen, "timeout")
     IN resetScreen' =
          [screen EXCEPT !.submits[i].timer = "fired",
                         !.submits[i].pc =
                            IF @ = "racing" THEN "timedOut" ELSE @]
  /\ UNCHANGED <<seqVars, syncVars, rateVars, linkVars, flowVars, detVars, busVars, delVars>>
  /\ UNCHANGED authVars

\* addLifecycleListener(listener): appended in registration order.
AddLifecycleListener(l) ==
  /\ \A n \in 1..Len(bus.listeners) : bus.listeners[n] # l
  /\ bus' = [bus EXCEPT !.listeners = Append(@, l)]
  /\ UNCHANGED <<seqVars, syncVars, rateVars, linkVars, flowVars, detVars,
                 submitVars, delVars>>
  /\ UNCHANGED authVars

\* The unsubscribe function addLifecycleListener returned is called, by the
\* listener under way or by an earlier one, or between two passes.
Unsubscribe(l) ==
  /\ \E n \in 1..Len(bus.listeners) : bus.listeners[n] = l
  /\ bus' = [bus EXCEPT !.listeners = Without(@, l),
                         !.dispatch.left =
                            IF bus.dispatch.pc = "running"
                            THEN @ \cup {l} ELSE @]
  /\ UNCHANGED <<seqVars, syncVars, rateVars, linkVars, flowVars, detVars,
                 submitVars, delVars>>
  /\ UNCHANGED authVars

\* A non-null event is published: the pass begins with a copy of the list.
DispatchBegins ==
  /\ bus.dispatch.pc \in {"idle", "done"}
  /\ bus' = [bus EXCEPT !.dispatch =
               [NoDispatch EXCEPT !.pc = "running", !.snapshot = bus.listeners]]
  /\ UNCHANGED <<seqVars, syncVars, rateVars, linkVars, flowVars, detVars,
                 submitVars, delVars>>
  /\ UNCHANGED authVars

\* The pass calls its next listener, or ends after the last one.  Calling a
\* slot the list no longer has is a TypeError that ends the pass.
DispatchStep ==
  /\ bus.dispatch.pc = "running"
  /\ LET d == bus.dispatch
         list == DispatchList(bus)
     IN IF d.pos > Len(d.snapshot)
        THEN bus' = [bus EXCEPT !.dispatch.pc = "done"]
        ELSE IF d.pos > Len(list)
        THEN bus' = [bus EXCEPT !.dispatch.pc = "done",
                                !.dispatch.threw = TRUE]
        ELSE bus' = [bus EXCEPT !.dispatch.pos = @ + 1,
                                !.dispatch.invoked[list[d.pos]] = @ + 1]
  /\ UNCHANGED <<seqVars, syncVars, rateVars, linkVars, flowVars, detVars,
                 submitVars, delVars>>
  /\ UNCHANGED authVars

\* ---------------------------------------------------------- deleteAccount
\* What a step of deleteAccount leaves alone besides the store and `del`.
DeleteFrame ==
  /\ UNCHANGED <<authStateSubscription, registrations, run, onb, so, now,
                 isUsingMockSupabase, remoteReported, lastWriter, lastPushNull,
                 calls>>
  /\ UNCHANGED <<seqVars, syncVars, rateVars, linkVars, flowVars, detVars,
                 submitVars, busVars>>

\* The catch and finally blocks: { error } is returned, loading is reset.
DeleteFails ==
  /\ store' = set(store, [loading |-> FALSE])
  /\ del' = [del EXCEPT !.pc = "done", !.result = "error"]

\* deleteAccount(): without a user it returns an error at once; with one it
\* sets loading and awaits getSession().
DeleteStart ==
  /\ del.pc \in {"idle", "done"}
  /\ IF store.user = Null
     THEN /\ del' = [IdleDelete EXCEPT !.pc = "done", !.result = "error"]
          /\ UNCHANGED store
     ELSE /\ del' = [IdleDelete EXCEPT !.pc = "getSession",
                                       !.userId = store.user.id]
          /\ store' = set(store, [loading |-> TRUE])
  /\ DeleteFrame

\* getSession() settles; an error, no session or a rejection ends the call.
DeleteGetSession ==
  /\ del.pc = "getSession"
  /\ \E resp \in LiveSessions \cup {Null, AuthError, Throw} :
       IF resp \in {Null, AuthError, Throw}
       THEN DeleteFails
       ELSE /\ del' = [del EXCEPT !.pc = "delete"]
            /\ UNCHANGED store
  /\ DeleteFrame

\* mockSupabaseHelpers.deleteUser / deleteSupabaseAccount settles.
DeleteRemote ==
  /\ del.pc = "delete"
  /\ \E removed \in BOOLEAN :
       IF removed
       THEN /\ del' = [del EXCEPT !.pc = "logOut", !.deleted = TRUE]
            /\ UNCHANGED store
       ELSE DeleteFails
  /\ DeleteFrame

\* clearSubscriptionState(): the entitlement logOut() resolves or rejects; a
\* rejection is logged.
DeleteLogOut ==
  /\ del.pc = "logOut"
  /\ \E rejected \in BOOLEAN :
       del' = [del EXCEPT !.pc = "signOut", !.logOutRejected = rejected]
  /\ UNCHANGED store
  /\ DeleteFrame

\* supabase.auth.signOut() settles and deleteAccount returns.
DeleteSignOut ==
  /\ del.pc = "signOut"
  /\ \E resp \in SignOutResponses :
       /\ store' = AfterSignOut(store, del.userId, resp)
       /\ del' = [del EXCEPT !.pc = "done", !.signOut = resp,
                             !.result = IF resp = "throw" THEN "error" ELSE "ok"]
  /\ DeleteFrame

\* ------------------------------------------------------------ specifications
RunStep(i) ==
  \/ InitGetSession(i)
  \/ InitCatch(i)
  \/ PushRefresh(i)
  \/ GetUser(i)
  \/ Fetch(i)
  \/ Upsert(i)

Next ==
  \/ \E i \in Slots : InitStart(i)
  \/ \E i \in Slots : InitGetSession(i)
  \/ \E i \in Slots : InitCatch(i)
  \/ \E i \in Slots : PushDeliver(i)
  \/ \E i \in Slots : PushRefresh(i)
  \/ \E i \in Slots : GetUser(i)
  \/ \E i \in Slots : Fetch(i)
  \/ \E i \in Slots : Upsert(i)
  \/ setSession
  \/ setUser
  \/ setHasCompletedOnboarding
  \/ OnboardingWriteSettles
  \/ SignOutStart
  \/ SignOutLogOut
  \/ SignOutFinish

\* The auth store with every operation interleaved at its awaits.
Spec == Init /\ [][Next]_vars

\* initialize and the push handler alone, interleaved at their awaits.
RunNext ==
  \/ calls < MaxFairCalls /\ \E i \in Slots : InitStart(i)
  \/ calls < MaxFairCalls /\ \E i \in Slots : PushDeliver(i)
  \/ \E i \in Slots : RunStep(i)

\* Every provider and database call of a run settles.
FairSpec ==
  Init /\ [][RunNext]_vars /\ \A i \in Slots : WF_vars(RunStep(i))

NextClock == Next \/ Tick

\* The auth store while time passes.
SpecClock == Init /\ [][NextClock]_vars

\* The auth-state callback applied to a sequence of pushes.
SeqSpec == Init /\ [][PushSeq]_vars

\* syncOnboardingStatus applied to a sequence of calls.
SyncSpec == Init /\ [][SyncCall]_vars

\* The deep-link resolver applied to one URL after another.
LinkNext ==
  \/ LinkSetScheme
  \/ LinkAppendSegment
  \/ LinkAppendPair
  \/ DeepLinkReceived
  \/ LinkNextUrl

LinkSpec == Init /\ [][LinkNext]_vars

FlowNext ==
  \/ \E i \in FlowSlots : ScreenMount(i)
  \/ \E i \in FlowSlots : ExchangeSettles(i)
  \/ \E i \in FlowSlots : VerifySettles(i)

\* The reset-password and auth-callback screens exchanging codes.
FlowSpec == Init /\ [][FlowNext]_vars

\* detectLifecycleEvent applied to one snapshot after another.
DetectSpec == Init /\ [][DetectCall]_vars

SubmitNext ==
  \/ \E i \in SubmitSlots : OnSubmit(i)
  \/ \E i \in SubmitSlots : UpdateUserSettles(i)
  \/ \E i \in SubmitSlots : TimeoutFires(i)

\* The reset-password form submitted while updates and timers settle.
SubmitSpec == Init /\ [][SubmitNext]_vars

BusNext ==
  \/ \E l \in ListenerIds : AddLifecycleListener(l)
  \/ \E l \in ListenerIds : Unsubscribe(l)
  \/ DispatchBegins
  \/ DispatchStep

\* Listeners registering and unregistering while events are dispatched.
BusSpec == Init /\ [][BusNext]_vars

DeleteNext ==
  \/ setSession
  \/ setHasCompletedOnboarding
  \/ OnboardingWriteSettles
  \/ DeleteStart
  \/ DeleteGetSession
  \/ DeleteRemote
  \/ DeleteLogOut
  \/ DeleteSignOut

\* deleteAccount on a store whose identity and onboarding flag are set by
\* the synchronous entry points.
DeleteSpec == Init /\ [][DeleteNext]_vars

RateNext == IsAllowedCall \/ RateReset \/ RateTick

\* The rate limiter called for several identifiers while time passes.
RateSpec == Init /\ [][RateNext]_vars

\* ------------------------------------------------------------------ claims
PushInFlight == \E i \in Slots : run[i].kind = "push" /\ InFlight(i)

InitDone(i) == run[i].kind = "init" /\ run[i].pc = "done"

PushDone(i) == run[i].kind = "push" /\ run[i].pc = "done"

\* Slot i's run of initialize ends in this step through the catch block.
InitFails(i) ==
  /\ run[i].kind = "init" /\ InFlight(i)
  /\ run'[i].pc = "done" /\ run'[i].failed

\* Slot i's run of initialize ends in this step.
InitEnds(i) == run[i].kind = "init" /\ InFlight(i) /\ run'[i].pc = "done"

\* Whether the map records onboarding as incomplete for key k.
Incomplete(map, k) == k \in DOMAIN map /\ ~map[k]

\* C1 as stated: isAuthenticated is true iff a session is held, the session
\* has not expired, and the held identity's email counts as confirmed.
C1_AuthIffLiveSessionAndConfirmed ==
  store.isAuthenticated <=>
    (store.session # Null /\ isAuthenticated(store.session)
       /\ isEmailConfirmed(store.user))

\* C1 amended: isAuthenticated is true iff a session is held and the held
\* identity's email counts as confirmed; the session's expiry is not looked
\* at.  isEmailConfirmed is the confirmed predicate of the held identity.
C1_AuthIffSessionAndConfirmed ==
  /\ store.isAuthenticated <=>
       (store.session # Null /\ isEmailConfirmed(store.user))
  /\ store.isEmailConfirmed <=> isEmailConfirmed(store.user)

\* An authenticated store whose session has expired.
C1_Witness ==
  /\ store.isAuthenticated
  /\ store.session # Null
  /\ ~isAuthenticated(store.session)

\* C2: once no push handler is in flight and a push handler was the last to
\* replace the composite state, the stored session is the latest push's.
C2_LastPushWins ==
  (~PushInFlight /\ lastWriter = "push") =>
    ((store.session = Null) <=> lastPushNull)

\* C3: once a profiles query has answered complete for an identity, no step
\* sets that identity's local onboarding status to incomplete.
C3_NoRegression ==
  [][\A u \in UserIds :
       (u \in remoteReported
          /\ ~Incomplete(store.onboardingStatusByUserId, u))
         => ~Incomplete(store'.onboardingStatusByUserId, u)]_vars

\* C4: when signOut completes, also after the entitlement logOut rejected,
\* the store holds no identity and no session and isAuthenticated is false.
C4_SignOutClears ==
  [][(so.pc # "done" /\ so'.pc = "done") =>
       (store'.user = Null /\ store'.session = Null
          /\ ~store'.isAuthenticated)]_vars

\* signOut called while authenticated, logOut rejected, signOut finished.
C4_Witness ==
  /\ so.pc = "done" /\ so.wasAuth /\ so.rejected
  /\ store.user = Null /\ store.session = Null /\ ~store.isAuthenticated

\* C5 as stated: after any call of initialize has finished, exactly one
\* listener is registered.
C5_ExactlyOneListener ==
  \A i \in Slots : InitDone(i) => registrations = 1

\* C5 amended: never more than one listener is registered; a call of
\* initialize that finishes without its session retrieval failing leaves
\* exactly one registered, and a call that fails registers none.
C5_AtMostOneListener ==
  /\ registrations <= 1
  /\ authStateSubscription <=> (registrations = 1)
  /\ \A i \in Slots : (InitDone(i) /\ ~run[i].failed) => registrations = 1

\* Two overlapping calls of initialize have both finished without failure.
C5_Witness ==
  /\ \A i \in Slots : InitDone(i) /\ ~run[i].failed
  /\ registrations = 1

\* C6: every call of initialize ends, and the step that ends it leaves
\* loading false, whichever provider calls failed.
C6_InitializeTerminates ==
  /\ \A i \in Slots :
       (run[i].kind = "init" /\ InFlight(i)) ~> (run[i].pc = "done")
  /\ [][\A i \in Slots : InitEnds(i) => ~store'.loading]_vars

\* A call of initialize whose session retrieval failed has ended.
C6_Witness ==
  \E i \in Slots : InitDone(i) /\ run[i].failed /\ ~store.loading

\* C7 as stated: after any sequence of pushes the store equals the store a
\* fresh machine reaches from the last push alone.
C7_EqualsLastOnFresh == seqStore = freshStore

\* C7 amended: after any sequence of pushes, session and loading equal those
\* a fresh machine reaches from the last push alone, and so do user,
\* isAuthenticated and isEmailConfirmed unless the last push's identity fetch
\* threw; the onboarding map and flag carry over from earlier pushes.
C7_SessionAndIdentityConverge ==
  /\ seqStore.session = freshStore.session
  /\ seqStore.loading = freshStore.loading
  /\ ~lastThrew =>
       /\ seqStore.user = freshStore.user
       /\ seqStore.isAuthenticated = freshStore.isAuthenticated
       /\ seqStore.isEmailConfirmed = freshStore.isEmailConfirmed

\* A sequence whose identity converges while its onboarding map does not.
C7_Witness ==
  /\ ~lastThrew
  /\ seqStore.user # Null
  /\ seqStore.user = freshStore.user
  /\ seqStore.onboardingStatusByUserId # freshStore.onboardingStatusByUserId

\* C8 as stated: once a fetch has answered true for an id, no later call
\* syncOnboardingStatus(id, false) returns false.
C8_StickyComplete ==
  (syncCall.called /\ syncCall.reportedBefore /\ ~syncCall.localStatus)
    => syncCall.result

\* C8 amended: a call syncOnboardingStatus(id, local) returns true exactly
\* when its own fetch answers true or local is true; with local false it
\* returns false whenever its own fetch fails or does not answer true, also
\* after an earlier fetch answered true.
C8_ResultFromOwnFetch ==
  syncCall.called =>
    (syncCall.result <=>
       (fetchOnboardingFromDatabase(syncCall.resp) = "true"
          \/ syncCall.localStatus))

\* A call with local false, after a true answer, whose own fetch failed.
C8_Witness ==
  /\ syncCall.called /\ syncCall.reportedBefore /\ ~syncCall.localStatus
  /\ syncCall.resp = "throw" /\ ~syncCall.result

\* C9 as stated: a finished run of initialize or of the push handler has
\* called set() exactly once.
C9_ExactlyOneWrite ==
  \A i \in Slots : run[i].pc = "done" => run[i].writes = 1

\* C9 amended: a run replaces the composite fields (session, user,
\* isAuthenticated, isEmailConfirmed, onboarding flag and map) in at most one
\* set(); the push handler calls set() once; initialize calls it twice, the
\* first time for loading alone, and touches no composite field when it fails.
C9_OneCompositeWrite ==
  \A i \in Slots :
    /\ run[i].compWrites <= 1
    /\ PushDone(i) => (run[i].writes = 1 /\ run[i].compWrites = 1)
    /\ (InitDone(i) /\ ~run[i].failed)
         => (run[i].writes = 2 /\ run[i].compWrites = 1)
    /\ (InitDone(i) /\ run[i].failed)
         => (run[i].writes = 2 /\ run[i].compWrites = 0)

\* A finished run of initialize beside a finished run of the push handler.
C9_Witness ==
  /\ \E i \in Slots : InitDone(i) /\ run[i].writes = 2 /\ run[i].compWrites = 1
  /\ \E i \in Slots : PushDone(i) /\ run[i].writes = 1

\* C10 as stated: the step in which initialize's error handling runs leaves
\* loading false, no identity, no session and isAuthenticated false.
C10_FailureLeavesAnonymous ==
  [][\A i \in Slots :
       InitFails(i) =>
         (~store'.loading /\ store'.user = Null /\ store'.session = Null
            /\ ~store'.isAuthenticated)]_vars

\* C10 amended: the step in which initialize's error handling runs sets
\* loading false and leaves identity, session and isAuthenticated as they
\* were, so the store is anonymous only if it was before.
C10_FailureKeepsIdentity ==
  [][\A i \in Slots :
       InitFails(i) =>
         (~store'.loading /\ store'.user = store.user
            /\ store'.session = store.session
            /\ store'.isAuthenticated = store.isAuthenticated)]_vars

\* A failed initialize beside a store that is authenticated and not loading.
C10_Witness ==
  /\ \E i \in Slots : InitDone(i) /\ run[i].failed
  /\ store.isAuthenticated /\ store.user # Null /\ ~store.loading

\* Slot i's getUser(), made because no session user is available, settles in
\* this step with one of the given outcomes.
FetchSettles(i, outcomes) ==
  /\ run[i].pc = "getUser"
  /\ run'[i].pc # "getUser"
  /\ run'[i].fetched \in outcomes

\* The identity slot i's run goes on with after this step is the one the
\* store held before it.
KeepsIdentity(i) ==
  IF run'[i].pc = "done" THEN store'.user = store.user
  ELSE run'[i].user = store.user

\* C11: when no session user is available and the identity fetch fails, by
\* throwing or by resolving with an error, initialize and the push handler go
\* on with the identity the store held, not with no identity.
C11_KeepsIdentityOnFailure ==
  [][\A i \in Slots :
       FetchSettles(i, {"error", "throw"}) => KeepsIdentity(i)]_vars

\* The store holds `flag` as the onboarding status, and as the map entry of
\* the identity `user`.
FlagApplied(st, user, flag) ==
  /\ st.hasCompletedOnboarding = flag
  /\ getUserKey(user) \in DOMAIN st.onboardingStatusByUserId
  /\ st.onboardingStatusByUserId[getUserKey(user)] = flag

\* A call of setHasCompletedOnboarding starts in this step.
OnboardingStarts == onb'.odd # onb.odd

RateCallInWindow ==
  /\ rlCall.called /\ ~rlCall.loadFails
  /\ rlCall.before # Null /\ rlCall.at < rlCall.before.resetAt

\* The latest isAllowed call found a stored entry whose window had ended.
RateCallAfterWindow ==
  /\ rlCall.called /\ ~rlCall.loadFails
  /\ rlCall.before # Null /\ rlCall.at >= rlCall.before.resetAt

\* The latest isAllowed call reached a save() and the save threw.
RateSaveFailed ==
  /\ rlCall.called /\ ~rlCall.loadFails /\ rlCall.saveFails
  /\ \/ rlCall.before = Null
     \/ rlCall.at >= rlCall.before.resetAt
     \/ rlCall.before.count < MAX_ATTEMPTS_PASSWORD_RESET

C15_DeniedLeavesEntry ==
  (rlCall.called /\ ~rlCall.result) =>
    /\ rlCall.after = rlCall.before
    /\ rlCall.before # Null

\* A denied call made later than the call that opened the window.
C15_Witness ==
  /\ rlCall.called /\ ~rlCall.result
  /\ rlCall.at + WindowTicks > rlCall.before.resetAt
  /\ rlCall.after.resetAt = rlCall.before.resetAt

\* C16: an isAllowed call during which load() or save() throws returns true
\* and does not throw; no isAllowed call throws.
C16_FailsOpen ==
  /\ rlCall.called => ~rlCall.threw
  /\ (rlCall.called /\ rlCall.loadFails) => rlCall.result
  /\ RateSaveFailed => rlCall.result

\* A call whose save() threw: granted, with the stored entry not updated.
C16_Witness ==
  /\ RateSaveFailed
  /\ rlCall.before # Null
  /\ rlCall.result /\ ~rlCall.threw
  /\ rlCall.after = rlCall.before

\* The latest URL resolved has the form <app scheme>://<screen>?k=v, with a
\* key other than token.
LinkScreenAfterScheme ==
  /\ linkCall.called
  /\ linkCall.url.scheme = DEEP_LINK_SCHEME
  /\ linkCall.url.slashes = 2
  /\ Len(linkCall.url.segs) = 1
  /\ Len(linkCall.url.query) = 1
  /\ linkCall.url.query[1].key # "token"

\* C17: a URL <app scheme>://<screen>?k=v resolves to a result whose screen
\* is <screen> and whose params hold the pair k=v.
C17_ResolvesScreenAfterScheme ==
  LinkScreenAfterScheme =>
    /\ linkCall.result # Null
    /\ linkCall.result.screen = linkCall.url.segs[1]
    /\ linkCall.result.params =
         [k \in {linkCall.url.query[1].key} |-> linkCall.url.query[1].value]

\* The structural check: non-empty, length within the accepted bounds.
TokenWellFormed(token) ==
  /\ token # ""
  /\ Length(token) > MinTokenLength
  /\ Length(token) < MaxTokenLength

\* C18: a link to reset-password or verify-email that carries a token
\* parameter resolves to a navigation result only if the token is non-empty
\* and of accepted length.
C18_NavigatesOnlyWithWellFormedToken ==
  (/\ linkCall.called
   /\ linkCall.result # Null
   /\ linkCall.result.screen \in SensitiveScreens
   /\ "token" \in DOMAIN linkCall.result.params)
    => TokenWellFormed(linkCall.result.params["token"])

\* The non-empty values of the token parameters of a URL.
TokenValues(url) ==
  {url.query[i].value : i \in {j \in 1..Len(url.query) :
                                 /\ url.query[j].key = "token"
                                 /\ url.query[j].value # ""}}

\* A log entry holds a token of the URL: on its own or inside the full URL.
EntryHoldsToken(entry, url) ==
  \E k \in DOMAIN entry.metadata :
    LET v == entry.metadata[k] IN
    \/ v.kind = "url" /\ TokenValues(v.url) # {}
    \/ v.kind = "text" /\ v.text \in TokenValues(url)

\* C19: no log entry written while a deep link is resolved holds the value
\* of its token parameter, on its own or inside the full URL, also when the
\* link is rejected.
C19_NoTokenInLogs ==
  linkCall.called =>
    \A entry \in linkCall.logs : ~EntryHoldsToken(entry, linkCall.url)

\* C20: when exchangeCodeForSession answers with an error (or rejects), the
\* step of verifyLink / handleAuthCallback that sees the answer leaves the
\* store's session, identity and flags as they were.
ExchangeFails(i) ==
  /\ flows[i].pc = "exchange"
  /\ flows'[i].pc = "done"
  /\ flows'[i].outcome = "error"

C20_FailedExchangeKeepsSession ==
  [][\A i \in FlowSlots :
       ExchangeFails(i) =>
         /\ store'.session = store.session
         /\ store'.user = store.user
         /\ store'.isAuthenticated = store.isAuthenticated]_vars

\* Both flows have been refused a code that was exchanged before while the
\* store holds the session that exchange established.
C20_Witness ==
  /\ store.session # Null
  /\ \A kind \in FlowKinds :
       \E i \in FlowSlots :
         /\ flows[i].kind = kind
         /\ flows[i].pc = "done"
         /\ flows[i].via = "exchange"
         /\ flows[i].outcome = "error"
         /\ flows[i].code \in consumed

\* C21: the resolver completes without throwing for every input, and it
\* returns null when new URL() rejects the input or the scheme is not the
\* application's.
LinkNotOurs ==
  linkCall.url.scheme = "" \/ linkCall.url.scheme # DEEP_LINK_SCHEME

C21_NeverThrowsNullWhenNotOurs ==
  linkCall.called =>
    /\ linkCall.result # Throw
    /\ LinkNotOurs => linkCall.result = Null

\* An unparseable input carrying a path and a query has been resolved.
C21_Witness ==
  /\ linkCall.called
  /\ linkCall.url.scheme = ""
  /\ Len(linkCall.url.segs) > 0
  /\ Len(linkCall.url.query) > 0
  /\ linkCall.result = Null

\* C22: for every pair (previous snapshot or null, current snapshot) the
\* detector returns the event of the first of the nine rules, taken in their
\* priority order, whose predicate holds for the pair, and null when none
\* holds.
C22_FirstRuleWins ==
  detCall.called =>
    LET prev == detCall.oldInfo
        cur == detCall.newInfo
        had == prev # Null
        laterExpiry ==
          /\ had
          /\ getTime(cur.expirationDate) # 0
          /\ getTime(prev.expirationDate) # 0
          /\ getTime(cur.expirationDate) > getTime(prev.expirationDate)
        rules ==
          << [event |-> "trial_started",
              holds |-> ~had /\ cur.isActive /\ cur.isTrial],
             [event |-> "subscription_started",
              holds |-> ~had /\ cur.isActive /\ ~cur.isTrial],
             [event |-> "trial_converted",
              holds |-> had /\ prev.isTrial /\ cur.isActive /\ ~cur.isTrial],
             [event |-> "trial_cancelled",
              holds |-> had /\ prev.isTrial /\ prev.isActive /\ ~cur.isActive],
             [event |-> "subscription_renewed",
              holds |-> had /\ prev.isActive /\ cur.isActive /\ laterExpiry],
             [event |-> "subscription_cancelled",
              holds |-> had /\ prev.willRenew /\ ~cur.willRenew /\ cur.isActive],
             [event |-> "subscription_expired",
              holds |-> had /\ prev.isActive /\ ~cur.isActive /\ ~cur.willRenew],
             [event |-> "billing_issue",
              holds |-> /\ had
                        /\ prev.billingIssueDetectedAt = ""
                        /\ cur.billingIssueDetectedAt # ""],
             [event |-> "subscription_restored",
              holds |-> had /\ ~prev.isActive /\ cur.isActive] >>
        matching == {n \in 1..Len(rules) : rules[n].holds}
    IN IF matching = {}
       THEN detCall.result = Null
       ELSE /\ detCall.result # Null
            /\ \E n \in matching :
                 /\ \A k \in matching : n <= k
                 /\ detCall.result.event = rules[n].event

\* A pair for which rules 7 and 8 both hold has been diffed, and the event
\* of rule 7 came back.
C22_Witness ==
  /\ detCall.called
  /\ detCall.oldInfo # Null
  /\ ~detCall.oldInfo.isTrial
  /\ detCall.oldInfo.isActive
  /\ ~detCall.newInfo.isActive
  /\ ~detCall.newInfo.willRenew
  /\ detCall.oldInfo.billingIssueDetectedAt = ""
  /\ detCall.newInfo.billingIssueDetectedAt # ""
  /\ detCall.result # Null
  /\ detCall.result.event = "subscription_expired"

\* C23: whenever isActive goes from true in the previous snapshot to false
\* in the current one, the detector reports subscription_expired.
ActiveLost ==
  /\ detCall.called
  /\ detCall.oldInfo # Null
  /\ detCall.oldInfo.isActive
  /\ ~detCall.newInfo.isActive

TimeoutWins(i) ==
  /\ resetScreen.submits[i].pc = "racing"
  /\ resetScreen.submits[i].timer = "pending"
  /\ resetScreen'.submits[i].timer = "fired"

LateSuccess(i) ==
  /\ resetScreen.submits[i].pc = "timedOut"
  /\ resetScreen.submits[i].updatePromise = "pending"
  /\ resetScreen'.submits[i].updatePromise = "ok"

C24_TimeoutOutcomeIsFinal ==
  [][\A i \in SubmitSlots :
       /\ TimeoutWins(i) =>
            /\ resetScreen'.submits[i].pc = "timedOut"
            /\ resetScreen'.verificationError # ""
            /\ resetScreen'.success = resetScreen.success
       /\ LateSuccess(i) =>
            /\ resetScreen'.submits[i].pc = "timedOut"
            /\ resetScreen'.success = resetScreen.success
            /\ resetScreen'.verificationError = resetScreen.verificationError
    ]_vars

\* A submit has timed out, its updateUser call has succeeded afterwards, and
\* the screen still shows the failure.
C24_Witness ==
  \E i \in SubmitSlots :
    /\ resetScreen.submits[i].pc = "timedOut"
    /\ resetScreen.submits[i].updatePromise = "ok"
    /\ ~resetScreen.success
    /\ resetScreen.verificationError # ""

\* C25: a dispatch pass during which listeners are unregistered does not
\* throw, and when it ends every listener that was registered when it began
\* has been called exactly once, and no other listener has been called.
Registered(list, l) == \E n \in 1..Len(list) : list[n] = l

C25_DispatchCallsSnapshotOnce ==
  bus.dispatch.pc = "done" =>
    /\ ~bus.dispatch.threw
    /\ \A l \in ListenerIds :
         bus.dispatch.invoked[l] =
           IF Registered(bus.dispatch.snapshot, l) THEN 1 ELSE 0

\* A pass over three listeners has ended with each of them called once,
\* and its first listener was unregistered while the pass was running.
C25_Witness ==
  /\ bus.dispatch.pc = "done"
  /\ Len(bus.dispatch.snapshot) = MaxListeners
  /\ bus.dispatch.snapshot[1] \in bus.dispatch.left
  /\ \A l \in ListenerIds : bus.dispatch.invoked[l] = 1

\* C26: a push handler or initialize call that was in flight when signOut
\* cleared the local identity does not write an identity or a session back:
\* the step that ends it leaves a store without identity as it is.
RacedRunEnds(i) ==
  /\ run[i].raced
  /\ InFlight(i)
  /\ run'[i].pc = "done"

C26_NoWriteBackAfterSignOut ==
  [][\A i \in Slots :
       (/\ RacedRunEnds(i)
        /\ store.user = Null
        /\ store.session = Null)
         => /\ store'.user = Null
            /\ store'.session = Null
            /\ ~store'.isAuthenticated]_vars

\* C27: a setHasCompletedOnboarding(true) call made while initialize or the
\* push handler is suspended at an await is not lost: the step that ends the
\* run keeps that identity's map entry complete, and hasCompletedOnboarding
\* too when that identity is the one held.
OnboardedRunEnds(i) ==
  /\ run[i].onboardedKey # ""
  /\ InFlight(i)
  /\ run'[i].pc = "done"
  /\ LocalOnboarding(store.onboardingStatusByUserId, run[i].onboardedKey)

C27_OnboardingNotLost ==
  [][\A i \in Slots :
       OnboardedRunEnds(i) =>
         /\ LocalOnboarding(store'.onboardingStatusByUserId,
                            run[i].onboardedKey)
         /\ getUserKey(store'.user) = run[i].onboardedKey
              => store'.hasCompletedOnboarding]_vars

\* C28: the Main and Onboarding stacks are rendered only while
\* isAuthenticated is true.
C28_AuthenticatedStacksOnly ==
  AppStack(store) \in {"Main", "Onboarding"} => store.isAuthenticated

\* C29: whenever no store operation is in flight, hasCompletedOnboarding
\* equals the onboardingStatusByUserId entry of the held identity's key (the
\* guest key when no identity is held).
Quiet ==
  /\ \A i \in Slots : ~InFlight(i)
  /\ onb.pc # "upsert"
  /\ so.pc \in {"idle", "done"}
  /\ del.pc \in {"idle", "done"}

C29_FlagEqualsMapEntry ==
  Quiet =>
    store.hasCompletedOnboarding =
      LocalOnboarding(store.onboardingStatusByUserId, getUserKey(store.user))

\* C30: when deleteAccount returns after its remote deletion succeeded, the
\* store holds no identity and no session and isAuthenticated is false, also
\* when the entitlement logOut or the provider sign-out failed.
DeleteReturns == del.pc # "done" /\ del'.pc = "done"

C30_DeletedAccountLeavesNoIdentity ==
  [][(DeleteReturns /\ del'.deleted) =>
       /\ store'.user = Null
       /\ store'.session = Null
       /\ ~store'.isAuthenticated]_vars

====
